---- MODULE Spec2Model ----
(***************************************************************************)
(* Model of inkling's story processing (src/src/story/process.rs): the     *)
(* text assembler (process_buffer, add_line_ending), the choice filter     *)
(* (prepare_choices_for_user, get_fallback_choices), condition evaluation  *)
(* (check_condition) and fill_in_invalid_error.                            *)
(*                                                                         *)
(* A text is a sequence of one-character strings.  The functions of        *)
(* process.rs are pure; each specification below draws their arguments     *)
(* from bounded sets in its initial state and applies them in actions.     *)
(***************************************************************************)
EXTENDS Integers, Sequences, FiniteSets, TLC

VARIABLES
    pc,               \* position of the caller
    from_buffer,      \* LineDataBuffer handed to process_buffer
    into_buffer,      \* LineBuffer that process_buffer appends to
    choices,          \* &[ChoiceExtra]: the authored choices of a branching point
    knots,            \* &Knots: knot name -> Knot
    current_address,  \* &Address
    presented,        \* result of prepare_choices_for_user
    fallbacks,        \* result of get_fallback_choices
    error_stub,       \* InklingError given to fill_in_invalid_error
    made_choice,      \* &Choice given to fill_in_invalid_error
    filled_error,     \* InklingError returned by fill_in_invalid_error
    condition,        \* &Condition given to check_condition
    checked,          \* result of check_condition
    event,            \* what following a set of choices comes to
    content,          \* &str given to read_knots_from_string
    marker,           \* &str given to divide_lines_at_marker
    content_lines,    \* lines left by remove_empty_and_comment_lines
    line_sets,        \* groups returned by divide_lines_at_marker
    knot_list,        \* the collected (name, knot) pairs, or the first error
    parsed            \* result of read_knots_from_string

vars == <<pc, from_buffer, into_buffer, choices, knots, current_address,
          presented, fallbacks, error_stub, made_choice, filled_error,
          condition, checked, event,
          content, marker, content_lines, line_sets, knot_list, parsed>>

text_vars == <<from_buffer, into_buffer>>

choice_vars == <<choices, presented, fallbacks, error_stub, made_choice, filled_error>>

cond_vars == <<condition, checked>>

story_vars == <<knots, current_address>>

follow_vars == <<event>>

parse_vars == <<content, marker, content_lines, line_sets, knot_list, parsed>>

\* ---------------------------------------------------------------- bounds
MaxLen == 2        \* characters in a raw line text
MaxLines == 3      \* lines in a LineDataBuffer
MaxChoices == 2    \* authored choices at a branching point
MaxConds == 2      \* conditions on one choice
MaxVisits == 1     \* visit counts tried in the choice filter
MaxSourceLines == 4 \* lines in a source given to the parser

\* ---------------------------------------------------------------- values
None == <<>>

Some(x) == <<x>>

Ok(v) == [ok |-> TRUE, value |-> v]

Err(e) == [ok |-> FALSE, error |-> e]

Unset == [unset |-> TRUE]

\* Nothing has been followed or parsed.
FollowIdle == event = Unset

ParseIdle ==
    /\ content = <<>>
    /\ marker = <<>>
    /\ content_lines = Unset
    /\ line_sets = Unset
    /\ knot_list = Unset
    /\ parsed = Unset

ROOT_KNOT_NAME == "$ROOT$"

SeqsUpTo(S, n) == UNION {[1..k -> S] : k \in 0..n}

\* ---------------------------------------------------------------- strings
Chars == {" ", "a"}

\* char::is_whitespace, as used by str::trim
WhiteSpace == {" ", "\t", "\n", "\r"}

Texts == SeqsUpTo(Chars, MaxLen)

RECURSIVE trim_start(_)
trim_start(s) ==
    IF s = <<>> THEN <<>>
    ELSE IF Head(s) \in WhiteSpace THEN trim_start(Tail(s))
    ELSE s

RECURSIVE trim_end(_)
trim_end(s) ==
    IF s = <<>> THEN <<>>
    ELSE IF s[Len(s)] \in WhiteSpace THEN trim_end(SubSeq(s, 1, Len(s) - 1))
    ELSE s

trim(s) == trim_end(trim_start(s))

starts_with(s, c) == s # <<>> /\ s[1] = c

ends_with(s, c) == s # <<>> /\ s[Len(s)] = c

\* ---------------------------------------------------------------- text assembler
InternalLines ==
    [text : Texts, glue_begin : BOOLEAN, glue_end : BOOLEAN, tags : {<<>>}]

LineDataBuffers == SeqsUpTo(InternalLines, MaxLines)

\* Bug variant: a line without a successor keeps its own glue_end.
add_line_ending_glue_on_last(line, next_line) ==
    LET glue == IF next_line # None
                THEN line.glue_end \/ next_line[1].glue_begin
                ELSE line.glue_end
    IN  IF ~glue
        THEN [line EXCEPT !.text = trim(line.text) \o <<"\n">>]
        ELSE line

\* Bug variant: the line ending is pushed onto the text as it stands, the
\* text is not trimmed first.
add_line_ending_without_trim(line, next_line) ==
    LET glue == IF next_line # None
                THEN line.glue_end \/ next_line[1].glue_begin
                ELSE FALSE
        whitespace == glue /\
            (IF next_line # None
             THEN ends_with(line.text, " ") \/ starts_with(next_line[1].text, " ")
             ELSE FALSE)
    IN  IF ~glue \/ whitespace
        THEN [line EXCEPT !.text =
                 line.text
                 \o (IF whitespace THEN <<" ">> ELSE <<>>)
                 \o (IF ~glue THEN <<"\n">> ELSE <<>>)]
        ELSE line

\* next_line is Option<&InternalLine>.
add_line_ending(line, next_line) ==
    LET glue == IF next_line # None
                THEN line.glue_end \/ next_line[1].glue_begin
                ELSE FALSE
        whitespace == glue /\
            (IF next_line # None
             THEN ends_with(line.text, " ") \/ starts_with(next_line[1].text, " ")
             ELSE FALSE)
    IN  IF ~glue \/ whitespace
        THEN [line EXCEPT !.text =
                 trim(line.text)
                 \o (IF whitespace THEN <<" ">> ELSE <<>>)
                 \o (IF ~glue THEN <<"\n">> ELSE <<>>)]
        ELSE line

\* The filter of the iterator in process_buffer.
non_empty_lines(buffer) == SelectSeq(buffer, LAMBDA line : trim(line.text) # <<>>)

\* Bug variant: the lookahead sees the next input line, empty or not, and
\* empty lines are dropped afterwards.
process_buffer_peeks_unfiltered(into, from) ==
    LET emit(i) ==
            LET line == add_line_ending(from[i],
                            IF i < Len(from) THEN Some(from[i + 1]) ELSE None)
            IN  [text |-> line.text, tags |-> line.tags, keep |-> trim(from[i].text) # <<>>]
        all == [i \in 1..Len(from) |-> emit(i)]
        kept == SelectSeq(all, LAMBDA l : l.keep)
    IN  into \o [k \in 1..Len(kept) |-> [text |-> kept[k].text, tags |-> kept[k].tags]]

\* Bug variant: a line glued to its successor also takes the successor's tags.
process_buffer_merging_glued_tags(into, from) ==
    LET iter == non_empty_lines(from)
        glued(k) == k < Len(iter) /\ (iter[k].glue_end \/ iter[k + 1].glue_begin)
        emit(k) ==
            LET line == add_line_ending(iter[k],
                            IF k < Len(iter) THEN Some(iter[k + 1]) ELSE None)
            IN  [text |-> line.text,
                 tags |-> line.tags \o (IF glued(k) THEN iter[k + 1].tags ELSE <<>>)]
    IN  into \o [k \in 1..Len(iter) |-> emit(k)]

process_buffer(into, from) ==
    LET iter == non_empty_lines(from)
        emit(k) ==
            LET line == add_line_ending(iter[k],
                            IF k < Len(iter) THEN Some(iter[k + 1]) ELSE None)
            IN  [text |-> line.text, tags |-> line.tags]
    IN  into \o [k \in 1..Len(iter) |-> emit(k)]

InitText ==
    /\ pc = "start"
    /\ FollowIdle
    /\ ParseIdle
    /\ from_buffer \in LineDataBuffers
    /\ into_buffer = <<>>
    /\ choices = <<>>
    /\ knots = <<>>
    /\ current_address = [knot |-> "", stitch |-> ""]
    /\ presented = Unset
    /\ fallbacks = Unset
    /\ error_stub = Unset
    /\ made_choice = Unset
    /\ filled_error = Unset
    /\ condition = Unset
    /\ checked = Unset

ProcessBuffer ==
    /\ pc = "start"
    /\ into_buffer' = process_buffer(into_buffer, from_buffer)
    /\ pc' = "done"
    /\ UNCHANGED <<follow_vars, parse_vars, from_buffer, choice_vars, cond_vars, story_vars>>

NextText == ProcessBuffer

SpecText == InitText /\ [][NextText]_vars

\* Lines that carry tags, and a destination buffer that already holds a line
\* of an earlier call.
TaggedTexts == {<<>>, <<"a">>}

TagLists == {<<>>, <<"tag 1">>, <<"tag 2", "tag 3">>}

TaggedLines ==
    [text : TaggedTexts, glue_begin : BOOLEAN, glue_end : BOOLEAN, tags : TagLists]

EarlierBuffers == {<<>>, <<[text |-> <<"a", "\n">>, tags |-> <<"tag 0">>]>>}

InitTags ==
    /\ pc = "start"
    /\ FollowIdle
    /\ ParseIdle
    /\ from_buffer \in SeqsUpTo(TaggedLines, MaxLines)
    /\ into_buffer \in EarlierBuffers
    /\ choices = <<>>
    /\ knots = <<>>
    /\ current_address = [knot |-> "", stitch |-> ""]
    /\ presented = Unset
    /\ fallbacks = Unset
    /\ error_stub = Unset
    /\ made_choice = Unset
    /\ filled_error = Unset
    /\ condition = Unset
    /\ checked = Unset

SpecTags == InitTags /\ [][NextText]_vars

\* A second pass: the lines of the first pass, now carrying the text the first
\* pass gave them, are processed again into an empty buffer.
first_pass_lines(from, into) ==
    LET iter == non_empty_lines(from)
    IN  [k \in 1..Len(iter) |-> [iter[k] EXCEPT !.text = into[k].text]]

ProcessBufferAgain ==
    /\ pc = "done"
    /\ from_buffer' = first_pass_lines(from_buffer, into_buffer)
    /\ into_buffer' = process_buffer(<<>>, from_buffer')
    /\ pc' = "again"
    /\ UNCHANGED <<follow_vars, parse_vars, choice_vars, cond_vars, story_vars>>

NextTwice == ProcessBuffer \/ ProcessBufferAgain

SpecTwice == InitText /\ [][NextTwice]_vars

\* ---------------------------------------------------------------- story graph
\* A u32 counter v is held as [top, low] with v = top * 2^31 + low, so that
\* the upper half of the u32 range stays within the integers TLC computes on.
U32(n) == [top |-> 0, low |-> n]

I32_MAX == 2147483647

U32s == [top : {0, 1}, low : {0, 1, 3, I32_MAX}]

\* `as i32` on a u32: two's complement reinterpretation of the 32 bits.
as_i32(u) == IF u.top = 1 THEN (u.low - I32_MAX) - 1 ELSE u.low

\* i32::cmp
cmp(a, b) == IF a < b THEN "Less" ELSE IF a = b THEN "Equal" ELSE "Greater"

InvalidAddress(knot, stitch) == [kind |-> "InvalidAddress", knot |-> knot, stitch |-> stitch]

\* Address::from_target_address; a target is the list of its dot-separated
\* parts: <<"knot">>, <<"knot", "stitch">> or <<"stitch">>.
from_target_address(name, address, story) ==
    IF Len(name) = 0 THEN Err(InvalidAddress("", None))
    ELSE IF Len(name) = 2
    THEN IF name[1] \in DOMAIN story /\ name[2] \in DOMAIN story[name[1]].stitches
         THEN Ok([knot |-> name[1], stitch |-> name[2]])
         ELSE Err(InvalidAddress(name[1], Some(name[2])))
    ELSE IF address.knot \in DOMAIN story
              /\ name[1] \in DOMAIN story[address.knot].stitches
    THEN Ok([knot |-> address.knot, stitch |-> name[1]])
    ELSE IF name[1] \in DOMAIN story
    THEN Ok([knot |-> name[1], stitch |-> story[name[1]].default_stitch])
    ELSE Err(InvalidAddress(name[1], None))

get_stitch(address, story) ==
    IF address.knot \in DOMAIN story /\ address.stitch \in DOMAIN story[address.knot].stitches
    THEN Ok(story[address.knot].stitches[address.stitch])
    ELSE Err(InvalidAddress(address.knot, Some(address.stitch)))

\* ---------------------------------------------------------------- conditions
\* The `?` operator: an Err is returned at once, an Ok value is passed on.
Try(result, Continue(_)) == IF result.ok THEN Continue(result.value) ELSE result

\* Result::unwrap_or
unwrap_or(result, default) == IF result.ok THEN result.value ELSE default

check_condition(cond, address, story) ==
    Try(from_target_address(cond.name, address, story), LAMBDA target :
        Try(get_stitch(target, story), LAMBDA stitch :
            LET num_visits == as_i32(stitch.num_visited)
                value == cmp(num_visits, cond.rhs_value) = cond.ordering
            IN  IF cond.not THEN Ok(~value) ELSE Ok(value)))

\* ---------------------------------------------------------------- choice filter
\* The loop over choice_data.conditions: the first error returns, the first
\* false condition breaks.
RECURSIVE check_conditions(_, _, _)
check_conditions(conds, address, story) ==
    IF conds = <<>> THEN Ok(TRUE)
    ELSE Try(check_condition(Head(conds), address, story), LAMBDA keep :
             IF ~keep THEN Ok(FALSE)
             ELSE check_conditions(Tail(conds), address, story))

\* Bug variant: visited choices are kept whether sticky or not.
check_choice_ignoring_visits(choice, address, story, keep_only_fallback) ==
    Try(check_conditions(choice.choice_data.conditions, address, story), LAMBDA keep :
        Ok(keep /\ (choice.choice_data.is_fallback = keep_only_fallback)))

\* Bug variant: fallback choices are kept in both modes.
check_choice_keeping_fallbacks(choice, address, story, keep_only_fallback) ==
    Try(check_conditions(choice.choice_data.conditions, address, story), LAMBDA keep :
        Ok(/\ keep
           /\ (choice.choice_data.is_sticky \/ choice.num_visited = 0)
           /\ (choice.choice_data.is_fallback \/ ~keep_only_fallback)))

\* Bug variant: a condition that fails to resolve counts as not fulfilled.
check_choice_swallowing_errors(choice, address, story, keep_only_fallback) ==
    Ok(/\ unwrap_or(check_conditions(choice.choice_data.conditions, address, story), FALSE)
       /\ (choice.choice_data.is_sticky \/ choice.num_visited = 0)
       /\ (choice.choice_data.is_fallback = keep_only_fallback))

\* The body of the loop over choices in check_choices_for_conditions.
check_choice(choice, address, story, keep_only_fallback) ==
    Try(check_conditions(choice.choice_data.conditions, address, story), LAMBDA keep :
        Ok(/\ keep
           /\ (choice.choice_data.is_sticky \/ choice.num_visited = 0)
           /\ (choice.choice_data.is_fallback = keep_only_fallback)))

\* The loop over choices run to its end: the error of the first choice that
\* fails, or else the vector of the values pushed.
first_error_or_values(results) ==
    IF \E i \in DOMAIN results : ~results[i].ok
    THEN results[CHOOSE i \in DOMAIN results :
                    ~results[i].ok /\ \A m \in 1..(i - 1) : results[m].ok]
    ELSE Ok([i \in DOMAIN results |-> results[i].value])

check_choices_for_conditions(authored, address, story, keep_only_fallback) ==
    first_error_or_values(
        [i \in DOMAIN authored |->
            check_choice(authored[i], address, story, keep_only_fallback)])

zip_choices_with_filter_values(authored, address, story, fallback) ==
    Try(check_choices_for_conditions(authored, address, story, fallback),
        LAMBDA checked_choices :
            Ok([i \in DOMAIN authored |->
                   [keep |-> checked_choices[i],
                    choice |-> [text |-> trim(authored[i].choice_data.selection_text.text),
                                tags |-> authored[i].choice_data.selection_text.tags,
                                index |-> i - 1]]]))

\* filter_map over (keep, choice) pairs.
kept_choices(choices_with_filter_values) ==
    LET kept == SelectSeq(choices_with_filter_values, LAMBDA p : p.keep)
    IN  [k \in DOMAIN kept |-> kept[k].choice]

\* Bug variant: the kept choices are numbered by their place in the kept list.
get_available_choices_renumbered(authored, address, story, fallback) ==
    Try(zip_choices_with_filter_values(authored, address, story, fallback),
        LAMBDA choices_with_filter_values :
            Ok([k \in DOMAIN kept_choices(choices_with_filter_values) |->
                   [kept_choices(choices_with_filter_values)[k] EXCEPT !.index = k - 1]]))

get_available_choices(authored, address, story, fallback) ==
    Try(zip_choices_with_filter_values(authored, address, story, fallback),
        LAMBDA choices_with_filter_values :
            Ok(kept_choices(choices_with_filter_values)))

prepare_choices_for_user(authored, address, story) ==
    get_available_choices(authored, address, story, FALSE)

\* Bug variant: the fallback list is filtered as the list for the user is.
get_fallback_choices_as_for_user(authored, address, story) ==
    get_available_choices(authored, address, story, FALSE)

get_fallback_choices(authored, address, story) ==
    get_available_choices(authored, address, story, TRUE)

\* Bug variant: the presented choices are computed in fallback mode.
fill_in_invalid_error_fallback_mode(stub, made, address, story) ==
    IF stub.kind = "InvalidChoice"
    THEN [kind |-> "InvalidChoice",
          index |-> stub.index,
          choice |-> Some(made),
          internal_choices |-> stub.internal_choices,
          presented_choices |->
              unwrap_or(zip_choices_with_filter_values(
                            stub.internal_choices, address, story, TRUE), <<>>)]
    ELSE stub

fill_in_invalid_error(stub, made, address, story) ==
    IF stub.kind = "InvalidChoice"
    THEN [kind |-> "InvalidChoice",
          index |-> stub.index,
          choice |-> Some(made),
          internal_choices |-> stub.internal_choices,
          presented_choices |->
              unwrap_or(zip_choices_with_filter_values(
                            stub.internal_choices, address, story, FALSE), <<>>)]
    ELSE stub

\* ---------------------------------------------------------------- choice filter: inputs
\* A story of one knot "k" whose root stitch has been visited n times.
KnotsVisited(n) ==
    [name \in {"k"} |->
        [default_stitch |-> ROOT_KNOT_NAME,
         stitches |-> [s \in {ROOT_KNOT_NAME} |-> [num_visited |-> U32(n)]]]]

\* "k" is in the story, "x" is not.
ChoiceConditions ==
    {[name |-> <<"k">>, rhs_value |-> 0, ordering |-> "Greater", not |-> FALSE],
     [name |-> <<"x">>, rhs_value |-> 0, ordering |-> "Greater", not |-> FALSE]}

SelectionTexts == {[text |-> <<" ", "a">>, glue_begin |-> FALSE, glue_end |-> FALSE,
                    tags |-> <<"tag 1">>]}

InternalChoices ==
    [selection_text : SelectionTexts,
     conditions : SeqsUpTo(ChoiceConditions, MaxConds),
     is_sticky : BOOLEAN,
     is_fallback : BOOLEAN]

ChoiceExtras == [num_visited : 0..MaxVisits, choice_data : InternalChoices]

MadeChoices == {[text |-> <<"a">>, tags |-> <<>>, index |-> 5]}

\* The stubs handed to fill_in_invalid_error for the choices at hand.
ErrorStubs(authored) ==
    {[kind |-> "InvalidChoice", index |-> Len(authored), choice |-> None,
      internal_choices |-> authored, presented_choices |-> <<>>],
     [kind |-> "OutOfContent"],
     [kind |-> "MadeChoiceWithoutChoice"]}

InitChoices ==
    /\ pc = "start"
    /\ FollowIdle
    /\ ParseIdle
    /\ choices \in SeqsUpTo(ChoiceExtras, MaxChoices)
    /\ knots \in {KnotsVisited(n) : n \in 0..MaxVisits}
    /\ current_address = [knot |-> "k", stitch |-> ROOT_KNOT_NAME]
    /\ presented = Unset
    /\ fallbacks = Unset
    /\ error_stub = Unset
    /\ made_choice = Unset
    /\ filled_error = Unset
    /\ from_buffer = <<>>
    /\ into_buffer = <<>>
    /\ condition = Unset
    /\ checked = Unset

PrepareChoicesForUser ==
    /\ pc = "start"
    /\ presented' = prepare_choices_for_user(choices, current_address, knots)
    /\ pc' = "presented"
    /\ UNCHANGED <<follow_vars, parse_vars, choices, fallbacks, error_stub, made_choice, filled_error,
                   text_vars, cond_vars, story_vars>>

GetFallbackChoices ==
    /\ pc = "presented"
    /\ fallbacks' = get_fallback_choices(choices, current_address, knots)
    /\ pc' = "filtered"
    /\ UNCHANGED <<follow_vars, parse_vars, choices, presented, error_stub, made_choice, filled_error,
                   text_vars, cond_vars, story_vars>>

FillInInvalidError ==
    /\ pc = "filtered"
    /\ \E stub \in ErrorStubs(choices), made \in MadeChoices :
          /\ error_stub' = stub
          /\ made_choice' = made
          /\ filled_error' = fill_in_invalid_error(stub, made, current_address, knots)
    /\ pc' = "done"
    /\ UNCHANGED <<follow_vars, parse_vars, choices, presented, fallbacks, text_vars, cond_vars, story_vars>>

NextChoices == PrepareChoicesForUser \/ GetFallbackChoices \/ FillInInvalidError

SpecChoices == InitChoices /\ [][NextChoices]_vars

\* ---------------------------------------------------------------- following a set of choices
OutOfChoices(address) == [kind |-> "OutOfChoices", address |-> address]

BranchingChoice(presentable) == [type |-> "BranchingChoice", choices |-> presentable]

\* The engine goes on into the body of this choice without asking the user.
FallbackChoice(choice) == [type |-> "FallbackChoice", choice |-> choice]

\* Asked only when there is nothing to present.
fallbacks_if_asked(presentable, authored, address, story) ==
    IF presentable.ok /\ presentable.value = <<>>
    THEN get_fallback_choices(authored, address, story)
    ELSE Unset

\* The engine at a set of choices: present what can be presented, else take
\* the first fallback, else fail.
follow_choice_set(presentable, fallback, address) ==
    Try(presentable, LAMBDA to_present :
        IF to_present # <<>> THEN Ok(BranchingChoice(to_present))
        ELSE Try(fallback, LAMBDA to_take :
                 IF to_take # <<>> THEN Ok(FallbackChoice(to_take[1]))
                 ELSE Err(OutOfChoices(address))))

FollowChoiceSet ==
    /\ pc = "start"
    /\ presented' = prepare_choices_for_user(choices, current_address, knots)
    /\ fallbacks' = fallbacks_if_asked(presented', choices, current_address, knots)
    /\ event' = follow_choice_set(presented', fallbacks', current_address)
    /\ pc' = "followed"
    /\ UNCHANGED <<parse_vars, choices, error_stub, made_choice, filled_error,
                   text_vars, cond_vars, story_vars>>

NextFollow == FollowChoiceSet

SpecFollow == InitChoices /\ [][NextFollow]_vars

\* ---------------------------------------------------------------- check_condition: inputs
\* A story of one knot "k" with a root stitch and a stitch "s".
KnotsCounting(root, s) ==
    [name \in {"k"} |->
        [default_stitch |-> ROOT_KNOT_NAME,
         stitches |-> [n \in {ROOT_KNOT_NAME, "s"} |->
                          [num_visited |-> IF n = "s" THEN s ELSE root]]]]

Targets == {<<"k">>, <<"s">>, <<"k", "s">>, <<"x">>, <<"k", "x">>, <<>>}

Conditions ==
    [name : Targets,
     rhs_value : {-1, 0, 2, 3, I32_MAX},
     ordering : {"Less", "Equal", "Greater"},
     not : BOOLEAN]

InitCondition ==
    /\ pc = "start"
    /\ FollowIdle
    /\ ParseIdle
    /\ condition \in Conditions
    /\ knots \in {KnotsCounting(root, U32(1)) : root \in U32s}
    /\ current_address \in {[knot |-> "k", stitch |-> ROOT_KNOT_NAME],
                            [knot |-> "", stitch |-> ""]}
    /\ checked = Unset
    /\ choices = <<>>
    /\ presented = Unset
    /\ fallbacks = Unset
    /\ error_stub = Unset
    /\ made_choice = Unset
    /\ filled_error = Unset
    /\ from_buffer = <<>>
    /\ into_buffer = <<>>

CheckCondition ==
    /\ pc = "start"
    /\ checked' = check_condition(condition, current_address, knots)
    /\ pc' = "done"
    /\ UNCHANGED <<follow_vars, parse_vars, condition, choice_vars, text_vars, story_vars>>

NextCondition == CheckCondition

SpecCondition == InitCondition /\ [][NextCondition]_vars

\* ---------------------------------------------------------------- structural parser
\* The markers of crate::consts, as texts.
KNOT_MARKER == <<"=", "=">>

STITCH_MARKER == <<"=">>

LINE_COMMENT_MARKER == <<"/", "/">>

TODO_COMMENT_MARKER == <<"T", "O", "D", "O", ":">>

\* ROOT_KNOT_NAME as a text: names read from lines are texts.
ROOT_KNOT_TEXT == <<"$", "R", "O", "O", "T", "$">>

MarkerChar == "="

NameChars == {"k", "j", "s", "t"}

\* str::starts_with for a &str pattern.
starts_with_str(s, prefix) ==
    Len(s) >= Len(prefix) /\ SubSeq(s, 1, Len(prefix)) = prefix

\* str::lines: split at "\n", no line for what follows the last "\n" when
\* that is empty, a "\r" before the "\n" goes with the line ending.
RECURSIVE lines(_)
lines(s) ==
    IF s = <<>> THEN <<>>
    ELSE LET breaks == {i \in 1..Len(s) : s[i] = "\n"}
             end == IF breaks = {} THEN Len(s) + 1
                    ELSE CHOOSE i \in breaks : \A j \in breaks : i <= j
             line == SubSeq(s, 1, end - 1)
             stripped == IF breaks # {} /\ ends_with(line, "\r")
                         THEN SubSeq(line, 1, Len(line) - 1) ELSE line
         IN  <<stripped>> \o lines(SubSeq(s, end + 1, Len(s)))

KnotErrorEmpty == [type |-> "KnotError::Empty"]

InvalidName(kind, line) ==
    [type |-> "KnotError::InvalidName", kind |-> kind, line |-> line]

NoNamePresent(error) ==
    error.type = "KnotError::InvalidName" /\ error.kind = "NoNamePresent"

ParseErrorEmpty == [type |-> "ParseError::Empty"]

\* From<KnotError> for ParseError, applied by `?`.
ParseErrorFrom(error) ==
    IF error.type = "panic" THEN error
    ELSE [type |-> "ParseError::KnotError", error |-> error]

\* unreachable!(): the panic unwinds through the callers as a failure of its
\* own type; no caller matches on it.
Panic == Err([type |-> "panic"])

RECURSIVE trim_start_matches(_, _)
trim_start_matches(s, c) ==
    IF s # <<>> /\ Head(s) = c THEN trim_start_matches(Tail(s), c) ELSE s

RECURSIVE trim_end_matches(_, _)
trim_end_matches(s, c) ==
    IF s # <<>> /\ s[Len(s)] = c
    THEN trim_end_matches(SubSeq(s, 1, Len(s) - 1), c) ELSE s

\* The name of a line `<marker> <identifier> [<marker>]`: the identifier
\* between the markers, an error when there is none or it is not an identifier.
read_name(line) ==
    LET name == trim(trim_end_matches(
                         trim_start_matches(trim(line), MarkerChar), MarkerChar))
    IN  IF name = <<>> THEN Err(InvalidName("EmptyName", line))
        ELSE IF \E i \in 1..Len(name) : name[i] \notin NameChars
        THEN Err(InvalidName("ContainsInvalidCharacter", line))
        ELSE Ok(name)

read_knot_name(line) ==
    IF starts_with_str(trim_start(line), KNOT_MARKER)
    THEN read_name(line)
    ELSE Err(InvalidName("NoNamePresent", line))

\* The stitch marker is `=` but not `==`.
read_stitch_name(line) ==
    IF /\ starts_with_str(trim_start(line), STITCH_MARKER)
       /\ ~starts_with_str(trim_start(line), KNOT_MARKER)
    THEN read_name(line)
    ELSE Err(InvalidName("NoNamePresent", line))

\* Stitch::from_lines: the stitch keeps the content of its lines.
stitch_from_lines(stitch_lines) == [content |-> stitch_lines]

\* Iterator::collect into a HashMap: an entry inserted later replaces an
\* earlier one with the same key.  The pairs are <<name, value>>.
collect_hash_map(pairs) ==
    [name \in {pairs[i][1] : i \in DOMAIN pairs} |->
        LET last == CHOOSE i \in DOMAIN pairs :
                        /\ pairs[i][1] = name
                        /\ \A j \in DOMAIN pairs : pairs[j][1] = name => j <= i
        IN  pairs[last][2]]

\* Bug variant: a line that starts with TODO is taken for a comment, with
\* or without the colon.
remove_empty_and_comment_lines_any_todo(all_lines) ==
    LET without_comments ==
            SelectSeq(all_lines, LAMBDA line :
                ~(\/ starts_with_str(line, LINE_COMMENT_MARKER)
                  \/ starts_with_str(line, <<"T", "O", "D", "O">>)))
    IN  SelectSeq(without_comments, LAMBDA line : trim(line) # <<>>)

remove_empty_and_comment_lines(all_lines) ==
    LET without_comments ==
            SelectSeq(all_lines, LAMBDA line :
                ~(\/ starts_with_str(line, LINE_COMMENT_MARKER)
                  \/ starts_with_str(line, TODO_COMMENT_MARKER)))
    IN  SelectSeq(without_comments, LAMBDA line : trim(line) # <<>>)

\* Iterator::rposition: the last line that starts with the marker.
rposition(lines_left, the_marker) ==
    LET found == {i \in 1..Len(lines_left) :
                     starts_with_str(trim_start(lines_left[i]), the_marker)}
    IN  IF found = {} THEN None
        ELSE Some(CHOOSE i \in found : \A j \in found : j <= i)

\* The while loop of divide_lines_at_marker: split_off at the last marker
\* line until none is left.
RECURSIVE split_off_at_markers(_, _, _)
split_off_at_markers(lines_left, the_marker, buffer) ==
    LET i == rposition(lines_left, the_marker)
    IN  IF i = None THEN <<lines_left, buffer>>
        ELSE split_off_at_markers(SubSeq(lines_left, 1, i[1] - 1), the_marker,
                 Append(buffer, SubSeq(lines_left, i[1], Len(lines_left))))

rev(buffer) == [i \in 1..Len(buffer) |-> buffer[Len(buffer) + 1 - i]]

push_if_not_empty(buffer, lines_left) ==
    IF lines_left # <<>> THEN Append(buffer, lines_left) ELSE buffer

\* Bug variant: the lines in front of the first marker line are not pushed.
divide_lines_at_marker_from_first_marker(lines_in, the_marker) ==
    LET split == split_off_at_markers(lines_in, the_marker, <<>>)
    IN  rev(split[2])

divide_lines_at_marker(lines_in, the_marker) ==
    LET split == split_off_at_markers(lines_in, the_marker, <<>>)
    IN  rev(push_if_not_empty(split[2], split[1]))

\* Bug variant: at index 0 any failure to read the name gives the root name.
get_knot_name_any_error_is_root(knot_lines, knot_index) ==
    IF knot_lines = <<>> THEN Err(KnotErrorEmpty)
    ELSE LET name == read_knot_name(knot_lines[1])
         IN  IF name.ok
             THEN Ok([name |-> name.value, lines |-> Tail(knot_lines)])
             ELSE IF knot_index = 0
             THEN Ok([name |-> ROOT_KNOT_TEXT, lines |-> knot_lines])
             ELSE name

\* The result carries the name and the lines left in the &mut Vec.
get_knot_name(knot_lines, knot_index) ==
    IF knot_lines = <<>> THEN Err(KnotErrorEmpty)
    ELSE LET name == read_knot_name(knot_lines[1])
         IN  IF name.ok
             THEN Ok([name |-> name.value, lines |-> Tail(knot_lines)])
             ELSE IF knot_index = 0 /\ NoNamePresent(name.error)
             THEN Ok([name |-> ROOT_KNOT_TEXT, lines |-> knot_lines])
             ELSE name

\* Bug variant: any failure to read the name counts as no name.
get_stitch_name_any_error_is_none(stitch_lines) ==
    IF stitch_lines = <<>> THEN Err(KnotErrorEmpty)
    ELSE LET name == read_stitch_name(stitch_lines[1])
         IN  IF name.ok
             THEN Ok([name |-> Some(name.value), lines |-> Tail(stitch_lines)])
             ELSE Ok([name |-> None, lines |-> stitch_lines])

get_stitch_name(stitch_lines) ==
    IF stitch_lines = <<>> THEN Err(KnotErrorEmpty)
    ELSE LET name == read_stitch_name(stitch_lines[1])
         IN  IF name.ok
             THEN Ok([name |-> Some(name.value), lines |-> Tail(stitch_lines)])
             ELSE IF NoNamePresent(name.error)
             THEN Ok([name |-> None, lines |-> stitch_lines])
             ELSE name

get_stitch_identifier(name, stitch_index) ==
    IF stitch_index = 0 /\ name = None THEN Ok(ROOT_KNOT_TEXT)
    ELSE IF name # None THEN Ok(name[1])
    ELSE Panic

get_stitch_from_lines(stitch_lines, stitch_index) ==
    Try(get_stitch_name(stitch_lines), LAMBDA read :
        Try(get_stitch_identifier(read.name, stitch_index), LAMBDA stitch_name :
            Ok(<<stitch_name, stitch_from_lines(read.lines)>>)))

\* Bug variant: a knot without stitches is accepted, with the root name for
\* its default stitch.
get_default_stitch_and_hash_map_tuple_allowing_none(stitches) ==
    IF stitches = <<>> THEN Ok(<<ROOT_KNOT_TEXT, collect_hash_map(stitches)>>)
    ELSE Ok(<<stitches[1][1], collect_hash_map(stitches)>>)

\* Bug variant: the default name is that of the last stitch.
get_default_stitch_and_hash_map_tuple_last(stitches) ==
    IF stitches = <<>> THEN Err(KnotErrorEmpty)
    ELSE Ok(<<stitches[Len(stitches)][1], collect_hash_map(stitches)>>)

get_default_stitch_and_hash_map_tuple(stitches) ==
    IF stitches = <<>> THEN Err(KnotErrorEmpty)
    ELSE Ok(<<stitches[1][1], collect_hash_map(stitches)>>)

stitches_from_line_sets(knot_stitch_sets) ==
    first_error_or_values(
        [i \in DOMAIN knot_stitch_sets |->
            get_stitch_from_lines(knot_stitch_sets[i], i - 1)])

get_knot_from_lines(knot_lines, knot_index) ==
    Try(get_knot_name(knot_lines, knot_index), LAMBDA read :
        Try(stitches_from_line_sets(divide_lines_at_marker(read.lines, STITCH_MARKER)),
            LAMBDA stitches :
        Try(get_default_stitch_and_hash_map_tuple(stitches), LAMBDA tuple :
            Ok(<<read.name,
                 [default_stitch |-> tuple[1], stitches |-> tuple[2]]>>))))

\* The `knots` vector of read_knots_from_string, or its first error.
knots_from_line_sets(knot_line_sets) ==
    first_error_or_values(
        [i \in DOMAIN knot_line_sets |->
            get_knot_from_lines(knot_line_sets[i], i - 1)])

\* Bug variant: a knot without content is reported as an empty source.
root_name_and_knots_empty_knot_as_empty(knot_line_sets) ==
    IF knot_line_sets = <<>> THEN Err(ParseErrorEmpty)
    ELSE LET collected == knots_from_line_sets(knot_line_sets)
         IN  IF ~collected.ok
             THEN IF collected.error = KnotErrorEmpty THEN Err(ParseErrorEmpty)
                  ELSE Err(ParseErrorFrom(collected.error))
             ELSE IF collected.value = <<>> THEN Err(ParseErrorEmpty)
             ELSE Ok(<<collected.value[1][1], collect_hash_map(collected.value)>>)

\* read_knots_from_string from the division into knot line sets on.
root_name_and_knots(knot_line_sets) ==
    IF knot_line_sets = <<>> THEN Err(ParseErrorEmpty)
    ELSE LET collected == knots_from_line_sets(knot_line_sets)
         IN  IF ~collected.ok THEN Err(ParseErrorFrom(collected.error))
             ELSE IF collected.value = <<>> THEN Err(ParseErrorEmpty)
             ELSE Ok(<<collected.value[1][1], collect_hash_map(collected.value)>>)

read_knots_from_string(source) ==
    root_name_and_knots(
        divide_lines_at_marker(
            remove_empty_and_comment_lines(lines(source)), KNOT_MARKER))

\* ---------------------------------------------------------------- structural parser: inputs
\* The lines a source is made of: a blank line, a comment, text, and knot
\* and stitch lines with and without a name and with and without leading
\* whitespace.
SourceLines ==
    { <<>>,
      <<"/", "/">>,
      <<"a">>,
      <<"=", "=", "k">>,
      <<" ", "=", "=", " ", "j", " ", "=">>,
      <<"=", "s">>,
      <<" ", "=", "t">>,
      <<"=", "=">>,
      <<"=">> }

\* The lines the filter is tried on: blank lines, comments at the start of a
\* line and after whitespace, TODO with and without its colon, and lines kept.
FilterLines ==
    { <<>>,
      <<" ">>,
      <<"/", "/">>,
      <<" ", "/", "/">>,
      <<"T", "O", "D", "O", ":">>,
      <<" ", "T", "O", "D", "O", ":">>,
      <<"T", "O", "D", "O">>,
      <<"a", "/", "/">>,
      <<" ", "=", "t">> }

\* Every line of the source ends with a line break.
RECURSIVE unlines(_)
unlines(ls) ==
    IF ls = <<>> THEN <<>> ELSE Head(ls) \o <<"\n">> \o unlines(Tail(ls))

Sources == {unlines(ls) : ls \in SeqsUpTo(SourceLines, MaxSourceLines)}

InitParse ==
    /\ pc = "start"
    /\ FollowIdle
    /\ content \in Sources
    /\ marker = <<>>
    /\ content_lines = Unset
    /\ line_sets = Unset
    /\ knot_list = Unset
    /\ parsed = Unset
    /\ from_buffer = <<>>
    /\ into_buffer = <<>>
    /\ choices = <<>>
    /\ knots = <<>>
    /\ current_address = [knot |-> "", stitch |-> ""]
    /\ presented = Unset
    /\ fallbacks = Unset
    /\ error_stub = Unset
    /\ made_choice = Unset
    /\ filled_error = Unset
    /\ condition = Unset
    /\ checked = Unset

\* read_knots_from_string, its locals kept: the lines left by the filter, the
\* knot line sets and the vector of knots collected from them.
ReadKnotsFromString ==
    /\ pc = "start"
    /\ content_lines' = remove_empty_and_comment_lines(lines(content))
    /\ line_sets' = divide_lines_at_marker(content_lines', KNOT_MARKER)
    /\ knot_list' = IF line_sets' = <<>> THEN Unset
                    ELSE knots_from_line_sets(line_sets')
    /\ parsed' = read_knots_from_string(content)
    /\ pc' = "done"
    /\ UNCHANGED <<follow_vars, content, marker,
                   text_vars, choice_vars, cond_vars, story_vars>>

NextParse == ReadKnotsFromString

SpecParse == InitParse /\ [][NextParse]_vars

\* remove_empty_and_comment_lines on its own.
InitFilter ==
    /\ pc = "start"
    /\ FollowIdle
    /\ content \in {unlines(ls) : ls \in SeqsUpTo(FilterLines, MaxSourceLines)}
    /\ marker = <<>>
    /\ content_lines = Unset
    /\ line_sets = Unset
    /\ knot_list = Unset
    /\ parsed = Unset
    /\ from_buffer = <<>>
    /\ into_buffer = <<>>
    /\ choices = <<>>
    /\ knots = <<>>
    /\ current_address = [knot |-> "", stitch |-> ""]
    /\ presented = Unset
    /\ fallbacks = Unset
    /\ error_stub = Unset
    /\ made_choice = Unset
    /\ filled_error = Unset
    /\ condition = Unset
    /\ checked = Unset

RemoveEmptyAndCommentLines ==
    /\ pc = "start"
    /\ content_lines' = remove_empty_and_comment_lines(lines(content))
    /\ pc' = "done"
    /\ UNCHANGED <<follow_vars, content, marker, line_sets, knot_list, parsed,
                   text_vars, choice_vars, cond_vars, story_vars>>

NextFilter == RemoveEmptyAndCommentLines

SpecFilter == InitFilter /\ [][NextFilter]_vars

\* divide_lines_at_marker on its own, for both markers and unfiltered lines.
InitDivide ==
    /\ pc = "start"
    /\ FollowIdle
    /\ content = <<>>
    /\ marker \in {KNOT_MARKER, STITCH_MARKER}
    /\ content_lines \in SeqsUpTo(SourceLines, MaxSourceLines)
    /\ line_sets = Unset
    /\ knot_list = Unset
    /\ parsed = Unset
    /\ from_buffer = <<>>
    /\ into_buffer = <<>>
    /\ choices = <<>>
    /\ knots = <<>>
    /\ current_address = [knot |-> "", stitch |-> ""]
    /\ presented = Unset
    /\ fallbacks = Unset
    /\ error_stub = Unset
    /\ made_choice = Unset
    /\ filled_error = Unset
    /\ condition = Unset
    /\ checked = Unset

DivideLinesAtMarker ==
    /\ pc = "start"
    /\ line_sets' = divide_lines_at_marker(content_lines, marker)
    /\ pc' = "done"
    /\ UNCHANGED <<follow_vars, content, marker, content_lines, knot_list, parsed,
                   text_vars, choice_vars, cond_vars, story_vars>>

NextDivide == DivideLinesAtMarker

SpecDivide == InitDivide /\ [][NextDivide]_vars

\* ---------------------------------------------------------------- claims on the text assembler
\* The lines of the processed input that process_buffer emits, in order.
Emitted == non_empty_lines(from_buffer)

Processed == pc = "done" /\ Len(into_buffer) = Len(Emitted)

Glued(k) == k < Len(Emitted) /\ (Emitted[k].glue_end \/ Emitted[k + 1].glue_begin)

KeepSpace(k) ==
    Glued(k) /\ (ends_with(Emitted[k].text, " ") \/ starts_with(Emitted[k + 1].text, " "))

\* C1: every emitted text is trim(raw text), then one space iff keep_space,
\* then a newline iff not glued, whatever the glue and spacing of the line.
C1_EmittedTextIsTrimmedRaw ==
    pc = "done" =>
        /\ Len(into_buffer) = Len(Emitted)
        /\ \A k \in 1..Len(Emitted) :
              into_buffer[k].text =
                  trim(Emitted[k].text)
                  \o (IF KeepSpace(k) THEN <<" ">> ELSE <<>>)
                  \o (IF ~Glued(k) THEN <<"\n">> ELSE <<>>)

\* C2: an emitted line ends with a newline iff it is not glued to its
\* successor, and the last emitted line ends with exactly one newline even
\* when its glue_end flag is set.
C2_NewlineIffNotGlued ==
    pc = "done" =>
        /\ Len(into_buffer) = Len(Emitted)
        /\ \A k \in 1..(Len(Emitted) - 1) :
              ends_with(into_buffer[k].text, "\n")
                  <=> ~(Emitted[k].glue_end \/ Emitted[k + 1].glue_begin)
        /\ Len(Emitted) > 0 =>
              LET last == into_buffer[Len(into_buffer)].text
              IN  /\ ends_with(last, "\n")
                  /\ ~ends_with(SubSeq(last, 1, Len(last) - 1), "\n")

\* C2 witness: three lines emitted, the first glued to the second, the second
\* not glued to the third, and the last one carrying glue_end.
C2_Witness ==
    /\ Processed
    /\ Len(Emitted) = 3
    /\ Glued(1)
    /\ ~Glued(2)
    /\ Emitted[3].glue_end
    /\ ~ends_with(into_buffer[1].text, "\n")
    /\ ends_with(into_buffer[3].text, "\n")

TrailingWhitespace(s) == Len(s) - Len(trim_end(s))

LeadingWhitespace(s) == Len(s) - Len(trim_start(s))

\* C3: two adjacent emitted lines that are glued have at most one whitespace
\* character between them when their texts are concatenated.
C3_AtMostOneSpaceAcrossGlue ==
    pc = "done" =>
        \A k \in 1..(Len(into_buffer) - 1) :
            Glued(k) =>
                TrailingWhitespace(into_buffer[k].text)
                    + LeadingWhitespace(into_buffer[k + 1].text) <= 1

IsEmptyLine(i) == trim(from_buffer[i].text) = <<>>

\* Position in the output of the input line at index i.
OutputIndex(i) == Cardinality({m \in 1..i : ~IsEmptyLine(m)})

\* Line j is the next surviving line after the surviving line i.
NextSurvivor(i, j) ==
    /\ i < j
    /\ ~IsEmptyLine(i)
    /\ ~IsEmptyLine(j)
    /\ \A m \in (i + 1)..(j - 1) : IsEmptyLine(m)

\* C10: lines with empty trimmed text are dropped before glue is analysed:
\* one line is emitted per non-empty input line, the newline of a surviving
\* line is decided against the next surviving line, and a line followed by
\* empty lines and then a glue_begin line has no trailing newline.
C10_EmptyLinesTransparentToGlue ==
    pc = "done" =>
        /\ Len(into_buffer) = Cardinality({i \in DOMAIN from_buffer : ~IsEmptyLine(i)})
        /\ \A i, j \in DOMAIN from_buffer :
              NextSurvivor(i, j) =>
                  /\ ends_with(into_buffer[OutputIndex(i)].text, "\n")
                        <=> ~(from_buffer[i].glue_end \/ from_buffer[j].glue_begin)
                  /\ from_buffer[j].glue_begin
                        => ~ends_with(into_buffer[OutputIndex(i)].text, "\n")

\* C10 witness: a line without glue_end, an empty line that is not itself
\* glued, then a glue_begin line; the first is emitted without a newline.
C10_Witness ==
    /\ pc = "done"
    /\ Len(from_buffer) = 3
    /\ NextSurvivor(1, 3)
    /\ ~from_buffer[1].glue_end
    /\ ~from_buffer[2].glue_begin
    /\ ~from_buffer[2].glue_end
    /\ from_buffer[3].glue_begin
    /\ Len(into_buffer) = 2
    /\ ~ends_with(into_buffer[1].text, "\n")

\* C11: process_buffer appends one output line for every input line whose
\* trimmed text is not empty, in input order, each with the tags of its own
\* input line and with that line's trimmed text; the lines the destination
\* buffer held before the call stay unchanged in front of them.
C11_OneOutputLinePerLineWithOwnTags ==
    [][(pc = "start" /\ pc' = "done") =>
        LET n == Len(into_buffer)
        IN  /\ Len(into_buffer') = n + Len(Emitted)
            /\ SubSeq(into_buffer', 1, n) = into_buffer
            /\ \A k \in 1..Len(Emitted) :
                    /\ into_buffer'[n + k].tags = Emitted[k].tags
                    /\ trim(into_buffer'[n + k].text) = trim(Emitted[k].text)]_vars

\* An earlier line is in the buffer, an empty line was dropped, and two glued
\* lines with different tags were appended.
C11_Witness ==
    /\ pc = "done"
    /\ Len(into_buffer) = Len(Emitted) + 1
    /\ Len(Emitted) < Len(from_buffer)
    /\ \E k \in 1..Len(Emitted) :
            /\ Glued(k)
            /\ Emitted[k].tags # Emitted[k + 1].tags
            /\ Emitted[k + 1].tags # <<>>

\* C17: a second pass over the lines of a first pass, carrying the text the
\* first pass gave them and the same glue flags in the same order, gives
\* every line the text it already had.
C17_SecondPassChangesNothing ==
    pc = "again" =>
        /\ Len(into_buffer) = Len(from_buffer)
        /\ \A k \in 1..Len(from_buffer) : into_buffer[k].text = from_buffer[k].text

\* The second pass ran over a line the first pass had trimmed and given a
\* space before a glued successor, and over a line it had ended with a newline.
C17_Witness ==
    /\ pc = "again"
    /\ \E k \in 1..Len(from_buffer) - 1 :
            /\ from_buffer[k].glue_end \/ from_buffer[k + 1].glue_begin
            /\ ends_with(from_buffer[k].text, " ")
            /\ Len(from_buffer[k].text) > 1
    /\ ends_with(from_buffer[Len(from_buffer)].text, "\n")

\* ---------------------------------------------------------------- claims on the choice filter
\* The condition is fulfilled: it resolves and evaluates to true.
Holds(cond) == check_condition(cond, current_address, knots) = Ok(TRUE)

Unresolvable(cond) == ~from_target_address(cond.name, current_address, knots).ok

AllConditionsHold(choice) ==
    \A j \in DOMAIN choice.choice_data.conditions : Holds(choice.choice_data.conditions[j])

NotExhausted(choice) == choice.choice_data.is_sticky \/ choice.num_visited = 0

\* Authored indices carried by a returned list of choices.
Indices(list) == {list[k].index : k \in DOMAIN list}

\* C4: prepare_choices_for_user returns an authored choice iff all of its
\* conditions hold, it is sticky or unvisited, and it is not a fallback.
C4_PresentedIffConditionsStickyNotFallback ==
    (pc # "start" /\ presented.ok) =>
        \A i \in DOMAIN choices :
            (i - 1) \in Indices(presented.value)
                <=> /\ AllConditionsHold(choices[i])
                    /\ NotExhausted(choices[i])
                    /\ ~choices[i].choice_data.is_fallback

\* C4 witness: a visited non-sticky choice whose condition holds is hidden
\* while a visited sticky choice with the same condition is presented.
C4_Witness ==
    /\ pc # "start"
    /\ presented.ok
    /\ Len(choices) = 2
    /\ \A i \in 1..2 :
          /\ choices[i].num_visited > 0
          /\ ~choices[i].choice_data.is_fallback
          /\ Len(choices[i].choice_data.conditions) > 0
          /\ AllConditionsHold(choices[i])
    /\ ~choices[1].choice_data.is_sticky
    /\ choices[2].choice_data.is_sticky
    /\ Indices(presented.value) = {1}

\* C5: get_fallback_choices returns an authored choice iff it is a fallback,
\* all of its conditions hold and it is sticky or unvisited; no authored
\* choice is in both the presented and the fallback list.
C5_FallbackIffFallbackConditionsSticky ==
    (pc \in {"filtered", "done"} /\ fallbacks.ok) =>
        /\ \A i \in DOMAIN choices :
              (i - 1) \in Indices(fallbacks.value)
                  <=> /\ choices[i].choice_data.is_fallback
                      /\ AllConditionsHold(choices[i])
                      /\ NotExhausted(choices[i])
        /\ presented.ok => Indices(presented.value) \cap Indices(fallbacks.value) = {}

\* C5 witness: a visited non-sticky fallback is not returned, an unvisited
\* fallback is.
C5_Witness ==
    /\ pc \in {"filtered", "done"}
    /\ fallbacks.ok
    /\ Len(choices) = 2
    /\ \A i \in 1..2 :
          /\ choices[i].choice_data.is_fallback
          /\ ~choices[i].choice_data.is_sticky
          /\ AllConditionsHold(choices[i])
    /\ choices[1].num_visited > 0
    /\ choices[2].num_visited = 0
    /\ Indices(fallbacks.value) = {1}
    /\ presented.ok
    /\ presented.value = <<>>

\* The returned list is in authored order, and each entry is the authored
\* choice found at the position its index names.
IndexedByAuthoredPosition(list) ==
    /\ \A k \in DOMAIN list :
          /\ list[k].index \in 0..(Len(choices) - 1)
          /\ list[k].text = trim(choices[list[k].index + 1].choice_data.selection_text.text)
          /\ list[k].tags = choices[list[k].index + 1].choice_data.selection_text.tags
          /\ AllConditionsHold(choices[list[k].index + 1])
          /\ NotExhausted(choices[list[k].index + 1])
    /\ \A k \in 1..(Len(list) - 1) : list[k].index < list[k + 1].index

\* C6: every returned Choice carries its position in the authored list as its
\* index, and the returned lists keep the authored order.
C6_IndexIsAuthoredPosition ==
    /\ (pc # "start" /\ presented.ok) =>
          /\ IndexedByAuthoredPosition(presented.value)
          /\ \A k \in DOMAIN presented.value :
                ~choices[presented.value[k].index + 1].choice_data.is_fallback
    /\ (pc \in {"filtered", "done"} /\ fallbacks.ok) =>
          /\ IndexedByAuthoredPosition(fallbacks.value)
          /\ \A k \in DOMAIN fallbacks.value :
                choices[fallbacks.value[k].index + 1].choice_data.is_fallback

\* C6 witness: the first authored choice is hidden, so the only presented
\* choice has index 1 at position 0 of the returned list.
C6_Witness ==
    /\ pc # "start"
    /\ presented.ok
    /\ Len(choices) = 2
    /\ Len(presented.value) = 1
    /\ presented.value[1].index = 1

\* Places <<i, j>> of conditions that do not resolve and are evaluated: all
\* conditions before them on the same choice hold.
ReachedUnresolvable ==
    {p \in {<<i, j>> : i \in DOMAIN choices, j \in 1..MaxConds + 1} :
        /\ p[2] \in DOMAIN choices[p[1]].choice_data.conditions
        /\ Unresolvable(choices[p[1]].choice_data.conditions[p[2]])
        /\ \A m \in 1..(p[2] - 1) : Holds(choices[p[1]].choice_data.conditions[m])}

AnyUnresolvable ==
    \E i \in DOMAIN choices : \E j \in DOMAIN choices[i].choice_data.conditions :
        Unresolvable(choices[i].choice_data.conditions[j])

\* The first evaluated condition that does not resolve, in authored order.
FirstOf(reached) ==
    LET p == CHOOSE p \in reached :
                 \A q \in reached : p[1] < q[1] \/ (p[1] = q[1] /\ p[2] <= q[2])
    IN  choices[p[1]].choice_data.conditions[p[2]]

\* Both filters fail with the error of the given condition.
BothFailAs(error) ==
    /\ ~error.ok
    /\ error.error.kind = "InvalidAddress"
    /\ presented = error
    /\ fallbacks = error

BothFailIffReached(reached) ==
    /\ presented.ok <=> reached = {}
    /\ fallbacks.ok <=> reached = {}
    /\ reached # {} => BothFailAs(check_condition(FirstOf(reached), current_address, knots))

\* C8 as claimed: an unresolvable condition at any position of any choice
\* makes both filters return an error instead of a list.
C8_AnyUnresolvableConditionFails ==
    (pc \in {"filtered", "done"} /\ AnyUnresolvable) => (~presented.ok /\ ~fallbacks.ok)

\* C8 amended: both filters return an error instead of a list iff some
\* unresolvable condition is evaluated, that is, all conditions before it on
\* its choice hold; the error is the one check_condition gives for the first
\* such condition.  An unresolvable condition behind a condition that does
\* not hold is skipped.
C8_ReachedUnresolvableConditionFails ==
    pc \in {"filtered", "done"} => BothFailIffReached(ReachedUnresolvable)

\* C8 witness: the second choice has a condition that holds followed by one
\* that does not resolve, and both filters fail with InvalidAddress.
C8_Witness ==
    /\ pc \in {"filtered", "done"}
    /\ Len(choices) = 2
    /\ choices[1].choice_data.conditions = <<>>
    /\ Len(choices[2].choice_data.conditions) = 2
    /\ Holds(choices[2].choice_data.conditions[1])
    /\ Unresolvable(choices[2].choice_data.conditions[2])
    /\ ~presented.ok
    /\ ~fallbacks.ok
    /\ presented.error.kind = "InvalidAddress"

FilledStub == pc = "done" /\ error_stub.kind = "InvalidChoice"

FilledFrame ==
    /\ filled_error.kind = "InvalidChoice"
    /\ filled_error.index = error_stub.index
    /\ filled_error.internal_choices = error_stub.internal_choices
    /\ filled_error.choice = Some(made_choice)

\* One (shown, choice) pair per authored choice, in authored order, shown as
\* the present-to-user filter decides.
OnePairPerAuthoredChoice ==
    /\ Len(filled_error.presented_choices) = Len(error_stub.internal_choices)
    /\ \A i \in DOMAIN filled_error.presented_choices :
          LET pair == filled_error.presented_choices[i]
              authored == error_stub.internal_choices[i]
          IN  /\ pair.choice.index = i - 1
              /\ pair.choice.text = trim(authored.choice_data.selection_text.text)
              /\ pair.choice.tags = authored.choice_data.selection_text.tags
              /\ pair.keep <=> /\ AllConditionsHold(authored)
                               /\ NotExhausted(authored)
                               /\ ~authored.choice_data.is_fallback

\* C9 as claimed: a filled InvalidChoice keeps index and internal_choices,
\* carries the made choice and one (shown, choice) pair per authored choice;
\* any other error is returned unchanged.
C9_FilledErrorListsEveryChoice ==
    pc = "done" =>
        IF error_stub.kind = "InvalidChoice"
        THEN FilledFrame /\ OnePairPerAuthoredChoice
        ELSE filled_error = error_stub

\* C9 amended: as claimed when every evaluated condition of the authored
\* choices resolves; when the filter fails on an unresolvable condition the
\* failure is dropped and presented_choices is empty.
C9_FilledErrorListsEveryChoiceUnlessFilterFails ==
    pc = "done" =>
        IF error_stub.kind = "InvalidChoice"
        THEN /\ FilledFrame
             /\ IF ReachedUnresolvable = {}
                THEN /\ OnePairPerAuthoredChoice
                     /\ presented.ok
                     /\ \A i \in DOMAIN filled_error.presented_choices :
                           filled_error.presented_choices[i].keep
                               <=> (i - 1) \in Indices(presented.value)
                ELSE filled_error.presented_choices = <<>>
        ELSE filled_error = error_stub

\* C9 witness: a stub for two authored choices, one shown and one hidden, is
\* filled with two pairs.
C9_Witness ==
    /\ FilledStub
    /\ Len(error_stub.internal_choices) = 2
    /\ Len(filled_error.presented_choices) = 2
    /\ filled_error.presented_choices[1].keep
    /\ ~filled_error.presented_choices[2].keep
    /\ filled_error.choice = Some(made_choice)

\* ---------------------------------------------------------------- claims on check_condition
\* Ordering of a u32 counter against an i32, by value.
compare_count(u, rhs) == IF u.top = 1 THEN "Greater" ELSE cmp(u.low, rhs)

TargetStitch ==
    get_stitch(from_target_address(condition.name, current_address, knots).value, knots).value

\* C7: check_condition on NumVisits returns ((v compared with rhs) = ordering)
\* XOR negate, v being the visit counter of the stitch the target resolves to.
C7_ConditionComparesVisitCount ==
    (pc = "done" /\ from_target_address(condition.name, current_address, knots).ok) =>
        checked = Ok((compare_count(TargetStitch.num_visited, condition.rhs_value)
                         = condition.ordering) # condition.not)

\* ---------------------------------------------------------------- claims on following a set of choices
Followed == pc = "followed"

PassesFilter(i) == AllConditionsHold(choices[i]) /\ NotExhausted(choices[i])

PresentableChoices ==
    {i \in DOMAIN choices : PassesFilter(i) /\ ~choices[i].choice_data.is_fallback}

PassingFallbacks ==
    {i \in DOMAIN choices : PassesFilter(i) /\ choices[i].choice_data.is_fallback}

TookFallback == event.ok /\ event.value.type = "FallbackChoice"

\* C18: where every condition evaluated resolves, the engine takes a
\* fallback iff nothing is presentable and a fallback passes the filter, and
\* the one taken is the first entry of get_fallback_choices, the first
\* authored fallback that passes; with something presentable it reports
\* BranchingChoice with the presentable choices and asks for no fallback;
\* with neither it fails with OutOfChoices.
C18_FallbackIffNothingPresentable ==
    (Followed /\ ReachedUnresolvable = {}) =>
        /\ TookFallback <=> (PresentableChoices = {} /\ PassingFallbacks # {})
        /\ TookFallback =>
              /\ event.value.choice = fallbacks.value[1]
              /\ \A i \in PassingFallbacks : event.value.choice.index <= i - 1
              /\ event.value.choice.index + 1 \in PassingFallbacks
        /\ PresentableChoices # {} =>
              /\ event.ok
              /\ event.value.type = "BranchingChoice"
              /\ Indices(event.value.choices) = {i - 1 : i \in PresentableChoices}
              /\ fallbacks = Unset
        /\ (PresentableChoices = {} /\ PassingFallbacks = {}) =>
              event = Err(OutOfChoices(current_address))

\* Nothing was presentable, an exhausted fallback stood in front of one that
\* passes, and the second was taken.
C18_Witness ==
    /\ Followed
    /\ TookFallback
    /\ Len(choices) = 2
    /\ choices[1].choice_data.is_fallback
    /\ event.value.choice.index = 1

\* ---------------------------------------------------------------- claims on the structural parser
Filtered == pc = "done"

EntirelyWhitespace(line) == \A i \in 1..Len(line) : line[i] \in WhiteSpace

StartsAtColumnZeroWith(line, the_marker) ==
    /\ Len(line) >= Len(the_marker)
    /\ \A i \in 1..Len(the_marker) : line[i] = the_marker[i]

RemovedByFilter(line) ==
    \/ EntirelyWhitespace(line)
    \/ StartsAtColumnZeroWith(line, <<"/", "/">>)
    \/ StartsAtColumnZeroWith(line, <<"T", "O", "D", "O", ":">>)

\* C12: remove_empty_and_comment_lines removes exactly the lines that are
\* entirely whitespace, that start with `//` or that start with `TODO:`; all
\* other lines, a `TODO` line without the colon among them, are kept in their
\* order and unmodified.
C12_FilterRemovesExactlyEmptyAndCommentLines ==
    Filtered =>
        content_lines = SelectSeq(lines(content), LAMBDA line : ~RemovedByFilter(line))

\* A blank line, a comment and a `TODO:` line were removed and a `TODO` line
\* without the colon was kept.
C12_Witness ==
    /\ Filtered
    /\ \E i, j, k \in 1..Len(lines(content)) :
            /\ lines(content)[i] = <<" ">>
            /\ lines(content)[j] = <<"/", "/">>
            /\ lines(content)[k] = <<"T", "O", "D", "O", ":">>
    /\ content_lines = << <<"T", "O", "D", "O">> >>

\* C13: a line whose first characters after leading whitespace are `//` or
\* `TODO:` is dropped by the filter as one that has them at column 0: no
\* line left by the filter starts, once left-trimmed, with a comment marker.
C13_IndentedCommentLinesAreDropped ==
    Filtered =>
        \A i \in 1..Len(content_lines) :
            /\ ~StartsAtColumnZeroWith(trim_start(content_lines[i]), <<"/", "/">>)
            /\ ~StartsAtColumnZeroWith(trim_start(content_lines[i]),
                                       <<"T", "O", "D", "O", ":">>)

RootText == <<"$", "R", "O", "O", "T", "$">>

ParsedOk == pc = "done" /\ parsed.ok

IsMarkerLine(line, the_marker) ==
    StartsAtColumnZeroWith(trim_start(line), the_marker)

\* The identifier a name line carries: what is left of the line without its
\* marker characters and whitespace.
NameOn(line) ==
    SelectSeq(line, LAMBDA c : c # "=" /\ c \notin WhiteSpace)

\* The lines of knot group i after its name line, when it has one.
KnotGroupContent(i) ==
    IF IsMarkerLine(line_sets[i][1], <<"=", "=">>)
    THEN Tail(line_sets[i]) ELSE line_sets[i]

FirstLineIsStitchMarker(i) ==
    /\ KnotGroupContent(i) # <<>>
    /\ IsMarkerLine(KnotGroupContent(i)[1], <<"=">>)

\* The knot read from knot group i.
KnotOf(i) == knot_list.value[i][2]

\* C14: a knot whose first content line after the knot name is not a stitch
\* marker has default_stitch "$ROOT$", named stitches following or not; a knot
\* whose first content line is a stitch marker naming S has default_stitch S.
C14_DefaultStitchIsFirstStitchGroup ==
    ParsedOk =>
        \A i \in 1..Len(line_sets) :
            /\ KnotOf(i).default_stitch =
                   IF FirstLineIsStitchMarker(i)
                   THEN NameOn(KnotGroupContent(i)[1])
                   ELSE RootText
            /\ KnotOf(i).default_stitch \in DOMAIN KnotOf(i).stitches

\* One knot starts with content and has a named stitch after it, another
\* starts with a stitch marker.
C14_Witness ==
    /\ ParsedOk
    /\ \E i, j \in 1..Len(line_sets) :
            /\ ~FirstLineIsStitchMarker(i)
            /\ KnotOf(i).default_stitch = RootText
            /\ Cardinality(DOMAIN KnotOf(i).stitches) = 2
            /\ FirstLineIsStitchMarker(j)
            /\ KnotOf(j).default_stitch = <<"t">>

ParseDone == pc = "done" /\ line_sets # <<>>

ParsesAsKnotName(line) == IsMarkerLine(line, <<"=", "=">>) /\ NameOn(line) # <<>>

HasNoKnotName(line) == ~IsMarkerLine(line, <<"=", "=">>)

\* The lines in front of the first stitch marker line.
LeadingContent(ls) ==
    LET marked == {i \in 1..Len(ls) : IsMarkerLine(ls[i], <<"=">>)}
    IN  IF marked = {} THEN ls
        ELSE SubSeq(ls, 1, (CHOOSE i \in marked : \A j \in marked : i <= j) - 1)

\* The knot has the name and, in its unnamed first stitch, the lines in front
\* of the first stitch marker of knot_content.
KnotIsReadFrom(knot, name, knot_content) ==
    /\ knot[1] = name
    /\ (RootText \in DOMAIN knot[2].stitches) <=> (LeadingContent(knot_content) # <<>>)
    /\ (RootText \in DOMAIN knot[2].stitches) =>
            knot[2].stitches[RootText].content = LeadingContent(knot_content)

\* C15: a first line that parses as a knot name is consumed and names the
\* knot; a first line without a knot name makes the knot of index 0 "$ROOT$"
\* and stays as content; any other failure to read the name is returned as a
\* KnotError.  The root name returned is the name of the first knot group and
\* a key of the knot map.
C15_KnotNameFromFirstLine ==
    ParseDone =>
        /\ parsed.ok =>
            /\ \A i \in 1..Len(line_sets) :
                   LET first == line_sets[i][1]
                   IN  \/ /\ ParsesAsKnotName(first)
                          /\ KnotIsReadFrom(knot_list.value[i], NameOn(first),
                                            Tail(line_sets[i]))
                       \/ /\ i = 1
                          /\ HasNoKnotName(first)
                          /\ KnotIsReadFrom(knot_list.value[i], RootText, line_sets[i])
            /\ parsed.value[1] = knot_list.value[1][1]
            /\ parsed.value[1] \in DOMAIN parsed.value[2]
        /\ (\E i \in 1..Len(line_sets) :
                ~ParsesAsKnotName(line_sets[i][1]) /\ ~HasNoKnotName(line_sets[i][1]))
            => /\ ~parsed.ok
               /\ parsed.error.type = "ParseError::KnotError"
        /\ (~ParsesAsKnotName(line_sets[1][1]) /\ ~HasNoKnotName(line_sets[1][1]))
            => parsed.error.error =
                   [type |-> "KnotError::InvalidName", kind |-> "EmptyName",
                    line |-> line_sets[1][1]]

\* An unnamed first knot that kept its first line, followed by a named knot.
C15_Witness ==
    /\ ParseDone
    /\ parsed.ok
    /\ Len(line_sets) = 2
    /\ parsed.value[1] = RootText
    /\ parsed.value[2][RootText].stitches[RootText].content = << <<"a">> >>
    /\ DOMAIN parsed.value[2] = {RootText, <<"k">>}

\* A knot marker line without a name made the parse fail.
C15_WitnessError ==
    /\ ParseDone
    /\ ~parsed.ok
    /\ parsed.error.type = "ParseError::KnotError"
    /\ parsed.error.error.type = "KnotError::InvalidName"
    /\ parsed.error.error.kind = "EmptyName"

ReturnsParseErrorEmpty == ~parsed.ok /\ parsed.error.type = "ParseError::Empty"

NoLineSurvives ==
    \A i \in 1..Len(lines(content)) : RemovedByFilter(lines(content)[i])

\* C16: read_knots_from_string returns ParseError::Empty if and only if no
\* line of the source survives the filter of empty and comment lines.
C16_EmptyIffNoLineSurvives ==
    pc = "done" /\ parsed # Unset =>
        /\ ReturnsParseErrorEmpty <=> NoLineSurvives
        /\ NoLineSurvives <=> content_lines = <<>>

\* A source of blank and comment lines only gave ParseError::Empty.
C16_Witness ==
    /\ pc = "done"
    /\ parsed # Unset
    /\ Len(lines(content)) >= 2
    /\ NoLineSurvives
    /\ ReturnsParseErrorEmpty

\* A source whose one knot has no content failed, and not with
\* ParseError::Empty.
C16_WitnessEmptyKnot ==
    /\ pc = "done"
    /\ parsed # Unset
    /\ ~parsed.ok
    /\ parsed.error.type = "ParseError::KnotError"
    /\ parsed.error.error.type = "KnotError::Empty"

Divided == pc = "done" /\ marker # <<>>

RECURSIVE Concatenation(_)
Concatenation(groups) ==
    IF groups = <<>> THEN <<>> ELSE Head(groups) \o Concatenation(Tail(groups))

MarkerLines == {i \in 1..Len(content_lines) : IsMarkerLine(content_lines[i], marker)}

\* C19: divide_lines_at_marker partitions its input: the groups concatenated
\* are the input, no group is empty, every group but possibly the first
\* begins with a marker line, no other line of a group starts with the
\* marker, and the lines before the first marker line are the first group.
C19_DivisionIsPartitionAtMarkerLines ==
    Divided =>
        /\ Concatenation(line_sets) = content_lines
        /\ \A g \in 1..Len(line_sets) :
               /\ line_sets[g] # <<>>
               /\ g > 1 => IsMarkerLine(line_sets[g][1], marker)
               /\ \A j \in 2..Len(line_sets[g]) : ~IsMarkerLine(line_sets[g][j], marker)
        /\ \A first \in MarkerLines :
               (first > 1 /\ \A i \in MarkerLines : first <= i)
                   => line_sets[1] = SubSeq(content_lines, 1, first - 1)
        /\ (MarkerLines = {} /\ content_lines # <<>>) => line_sets = <<content_lines>>

\* Lines before the first marker line, and two groups opened by marker lines,
\* one of them with leading whitespace.
C19_Witness ==
    /\ Divided
    /\ Len(line_sets) = 3
    /\ ~IsMarkerLine(line_sets[1][1], marker)
    /\ \E g \in 2..3 : line_sets[g][1][1] = " "
    /\ Len(content_lines) = 4

\* The number of stitch groups in the content of knot group i.
StitchGroups(i) ==
    Cardinality({j \in 1..Len(KnotGroupContent(i)) :
                    IsMarkerLine(KnotGroupContent(i)[j], <<"=">>)})
    + (IF FirstLineIsStitchMarker(i) THEN 0 ELSE 1)

\* The content of the first stitch group of knot group i.
FirstStitchContent(i) ==
    IF FirstLineIsStitchMarker(i)
    THEN LeadingContent(Tail(KnotGroupContent(i)))
    ELSE LeadingContent(KnotGroupContent(i))

\* C20: a successful parse has one knot map entry per knot group and, in
\* each knot, one stitch entry per stitch group; the knot under the root name
\* is the one read from the first knot group and the stitch under
\* default_stitch is the one read from the first stitch group, also when two
\* groups carry the same name.
C20_OneEntryPerGroup ==
    ParsedOk =>
        /\ Cardinality(DOMAIN parsed.value[2]) = Len(line_sets)
        /\ parsed.value[2][parsed.value[1]] = KnotOf(1)
        /\ \A i \in 1..Len(line_sets) :
               /\ Cardinality(DOMAIN KnotOf(i).stitches) = StitchGroups(i)
               /\ KnotOf(i).stitches[KnotOf(i).default_stitch].content
                      = FirstStitchContent(i)

\* Knot group i is a knot name line and nothing else.
HeaderOnly(i) == ParsesAsKnotName(line_sets[i][1]) /\ Len(line_sets[i]) = 1

\* Knot group i has a first line that names it or, at index 0, no knot name,
\* has content, and every stitch marker line of it carries a name.
KnotGroupIsReadable(i) ==
    /\ ParsesAsKnotName(line_sets[i][1]) \/ (i = 1 /\ HasNoKnotName(line_sets[i][1]))
    /\ KnotGroupContent(i) # <<>>
    /\ \A j \in 1..Len(KnotGroupContent(i)) :
           IsMarkerLine(KnotGroupContent(i)[j], <<"=">>)
               => NameOn(KnotGroupContent(i)[j]) # <<>>

EveryKnotHasItsDefaultStitch ==
    \A name \in DOMAIN parsed.value[2] :
        /\ DOMAIN parsed.value[2][name].stitches # {}
        /\ parsed.value[2][name].default_stitch \in DOMAIN parsed.value[2][name].stitches

FailsWithKnotErrorEmpty ==
    /\ ~parsed.ok
    /\ parsed.error.type = "ParseError::KnotError"
    /\ parsed.error.error = [type |-> "KnotError::Empty"]

\* C21 as stated: every knot of a successful parse has at least one stitch
\* and its default_stitch among them, and a knot group that is a name line
\* and nothing else makes the parse fail with KnotError::Empty.
C21_EmptyKnotFailsWithKnotErrorEmpty ==
    ParseDone =>
        /\ parsed.ok => EveryKnotHasItsDefaultStitch
        /\ (\E i \in 1..Len(line_sets) : HeaderOnly(i)) => FailsWithKnotErrorEmpty

\* C21, amended: every knot of a successful parse has at least one stitch
\* and its default_stitch among them; a knot group that is a name line and
\* nothing else makes the parse fail, and with KnotError::Empty when every
\* knot group in front of it can be read.
C21_EmptyKnotFailsFirstErrorReturned ==
    ParseDone =>
        /\ parsed.ok => EveryKnotHasItsDefaultStitch
        /\ \A i \in 1..Len(line_sets) :
               HeaderOnly(i) =>
                   /\ ~parsed.ok
                   /\ (\A j \in 1..(i - 1) : KnotGroupIsReadable(j))
                          => FailsWithKnotErrorEmpty

\* A knot with content is followed by a knot that is a name line and nothing
\* else, and the parse failed with KnotError::Empty.
C21_Witness ==
    /\ ParseDone
    /\ Len(line_sets) = 2
    /\ KnotGroupIsReadable(1)
    /\ Len(line_sets[1]) >= 2
    /\ HeaderOnly(2)
    /\ FailsWithKnotErrorEmpty

Panicked(result) == ~result.ok /\ result.error.type = "panic"

\* The stitch groups of knot group i, whose name line, if any, has been read.
StitchGroupsOf(i) == divide_lines_at_marker(KnotGroupContent(i), <<"=">>)

BeginsWithNamedOrMalformedStitchLine(group) ==
    /\ IsMarkerLine(group[1], <<"=">>)
    /\ ~IsMarkerLine(group[1], <<"=", "=">>)
    /\ read_stitch_name(group[1]).ok
           \/ read_stitch_name(group[1]).error.kind # "NoNamePresent"

\* C22: the unreachable!() of get_stitch_identifier is reached for no source
\* given to read_knots_from_string: no knot group has a knot marker line after
\* its first line, and every stitch group of index above 0 begins with a
\* stitch marker line that is not a knot marker line and for which
\* read_stitch_name gives a name or an error other than NoNamePresent.
C22_UnreachableIsNeverReached ==
    ParseDone =>
        /\ ~Panicked(parsed)
        /\ ~Panicked(knot_list)
        /\ \A i \in 1..Len(line_sets) :
               /\ \A j \in 2..Len(line_sets[i]) :
                      ~IsMarkerLine(line_sets[i][j], <<"=", "=">>)
               /\ \A g \in 2..Len(StitchGroupsOf(i)) :
                      BeginsWithNamedOrMalformedStitchLine(StitchGroupsOf(i)[g])

\* A named knot behind the first one was read with two stitch groups, the
\* second of index 1.
C22_Witness ==
    /\ ParseDone
    /\ parsed.ok
    /\ Len(line_sets) = 2
    /\ Len(StitchGroupsOf(2)) = 2
    /\ Cardinality(DOMAIN KnotOf(2).stitches) = 2

\* A stitch group of index 1 began with a stitch marker line without a name,
\* and the parse failed with that line's error.
C22_WitnessMalformed ==
    /\ ParseDone
    /\ ~parsed.ok
    /\ Len(line_sets) = 1
    /\ Len(StitchGroupsOf(1)) = 2
    /\ StitchGroupsOf(1)[2][1] = <<"=">>
    /\ parsed.error.error.kind = "EmptyName"

====
